---- MODULE Spec2Model ----
(***************************************************************************)
(* Model of the easycache policy engines (src/src/strategy/lru.rs,         *)
(* fifo.rs, lfu.rs) as built by the facade Rustycache::new                 *)
(* (src/src/rustycache.rs): the Store (`map`), the Order Index (`order`    *)
(* for LRU/FIFO, `freq_map` for LFU), the wall clock, the foreground       *)
(* caller and the background cleaner tasks.                                *)
(*                                                                         *)
(* Every foreground method takes the Store lock first and keeps it to the  *)
(* end, and so does every sweep; each critical section is therefore one    *)
(* atomic action.  The only method that releases and re-takes the locks    *)
(* is FIFOCache::get on an expired entry: it is two actions.  Foreground   *)
(* mutators take `&mut self`, so they never overlap each other; the        *)
(* cleaner tasks run concurrently with them.                               *)
(*                                                                         *)
(* Spec is the cache whose caller uses the data methods and leaves the     *)
(* cleaner tasks running: a task then does nothing but go round its loop   *)
(* (CleanerRound).  The finer steps of a task (CleanerSelect,              *)
(* CleanerSweep, CleanerBreak) and the calls that spawn and stop tasks     *)
(* (StartCleaner, StopCleaner) describe the life cycle of the tasks:       *)
(* SpecLife is the cache whose caller puts and calls stop_cleaner, with    *)
(* the tasks fairly scheduled.  SpecLocks looks inside the critical        *)
(* sections: the caller and the tasks take and drop the two mutexes one    *)
(* step at a time (`locks`, `todo`), the data left aside.                  *)
(***************************************************************************)
EXTENDS Integers, Sequences, FiniteSets, TLC

\* ------------------------------------------------------------------ bounds
Keys == {"a", "b", "c"}
\* the keys the caller of an LFU cache uses
LFUKeys == {"a", "b"}
Values == {"v1", "v2"}
Strategies == {"LRU", "FIFO", "LFU"}
MaxCapacity == 2
MaxTime == 2
MaxFreq == 2
MaxCleaners == 3
MaxTtl == 2

VARIABLES strat, capacity, ttl, map, order, freq_map, now, cleaners, pending,
          last, lastUse, insOrder, locks, todo

vars == <<strat, capacity, ttl, map, order, freq_map, now, cleaners, pending,
          last, lastUse, insOrder, locks, todo>>

\* ----------------------------------------------------- collection helpers
\* HashMap::remove
MapRemove(m, k) == [x \in (DOMAIN m) \ {k} |-> m[x]]

\* HashMap::insert
MapInsert(m, k, e) == [x \in (DOMAIN m) \cup {k} |-> IF x = k THEN e ELSE m[x]]

\* HashMap::retain on a set of keys to keep
MapRestrict(m, S) == [x \in (DOMAIN m) \cap S |-> m[x]]

\* VecDeque::retain(|x| x != k)
Without(s, k) == SelectSeq(s, LAMBDA x : x # k)

\* the keys of a sequence
Range(s) == {s[i] : i \in 1..Len(s)}

\* entry.expires_at > now
Live(e, t) == e.expires_at > t

\* an entry that expires as it is written
ExpiryAtOnce(t) == t

\* Utc::now() + ttl
Expiry(t) == t + ttl

\* the keys of the Store whose entry has expired at time t
ExpiredKeys(m, t) == {k \in DOMAIN m : ~Live(m[k], t)}

\* BTreeMap<usize, HashSet<K>>: take key k out of bucket f, and drop the
\* bucket when that leaves it empty (no effect when there is no bucket f)
BucketRemove(fm, f, k) ==
    IF f \notin DOMAIN fm THEN fm
    ELSE IF fm[f] \ {k} = {} THEN [g \in (DOMAIN fm) \ {f} |-> fm[g]]
    ELSE [fm EXCEPT ![f] = @ \ {k}]

\* freq_map.entry(f).or_insert_with(HashSet::new).insert(k)
BucketInsert(fm, f, k) ==
    [g \in (DOMAIN fm) \cup {f} |->
        IF g = f THEN (IF f \in DOMAIN fm THEN fm[f] ELSE {}) \cup {k}
        ELSE fm[g]]

\* the smallest frequency that has a bucket (BTreeMap::iter_mut().next())
MinFreq(fm) == CHOOSE f \in DOMAIN fm : \A g \in DOMAIN fm : f <= g

\* the keys that occur in some bucket of the frequency index
IndexKeys(fm) == UNION {fm[f] : f \in DOMAIN fm}

\* ---------------------------------------------------------- observations
\* the insertion no other foreground call has followed yet: a put of a key
\* that was not in the Store leaves <<key, value stored, expires_at stored>>,
\* a sweep and a get or contains of that key keep what they find, every
\* other call leaves << >>
Fresh(op, k, m2) ==
    IF op = "sweep" THEN last.fresh
    ELSE IF op = "put" /\ k \notin DOMAIN map
         THEN <<k, m2[k].value, m2[k].expires_at>>
         ELSE IF op \in {"get", "contains"} /\ last.fresh # << >> /\ last.fresh[1] = k
              THEN last.fresh
              ELSE << >>

\* what the last step did: the method, its key, what it returned (a
\* sequence of length 0 or 1), the keys it took out of the Store, and
\* whether it found the entry of its key in the Store and expired
Did(op, k, ret, m2) ==
    last' = [op |-> op, key |-> k, ret |-> ret, gone |-> (DOMAIN map) \ (DOMAIN m2),
             fresh |-> Fresh(op, k, m2),
             stale |-> k \in DOMAIN map /\ ~Live(map[k], now)]

\* history of the calls, kept beside the engine and computed from the calls
\* and the Store alone, never from the Order Index: `lastUse` lists the keys
\* of the Store from the most to the least recently used (put or get that
\* returned a value), `insOrder` lists them from the earliest to the latest
\* inserted (a put that found the key absent)
InStore(s, m2) == SelectSeq(s, LAMBDA x : x \in DOMAIN m2)

Touch(s, k, m2) == InStore(<<k>> \o Without(s, k), m2)

Inserted(s, k, m2) == InStore(Without(s, k) \o <<k>>, m2)

\* the capacity test off by one
AtCapacityStrict(n, cap) == n > cap

\* `len >= self.capacity`: the test that makes put evict
AtCapacity(n, cap) == n >= cap

\* the threads that take the locks: 0 is the caller of the cache, i >= 1 is
\* cleaner task i
Threads == 0..MaxCleaners

\* ------------------------------------------------------------------- Init
Init ==
    /\ strat \in Strategies
    /\ capacity \in 1..MaxCapacity
    /\ ttl \in 1..MaxTtl
    /\ map = << >>
    /\ order = << >>
    /\ freq_map = << >>
    /\ now = 0
    /\ cleaners = << [kind |-> "new", pc |-> "start"],
                     [kind |-> "start_cleaner", pc |-> "start"] >>
    /\ pending = << >>
    /\ last = [op |-> "new", key |-> "-", ret |-> << >>, gone |-> {}, fresh |-> << >>,
               stale |-> FALSE]
    /\ lastUse = << >>
    /\ insOrder = << >>
    /\ locks = [Store |-> {}, Index |-> {}]
    /\ todo = [t \in Threads |-> << >>]

\* what a method of the foreground caller leaves alone in every engine
FgFrame == UNCHANGED <<strat, capacity, ttl, now, cleaners, locks, todo>>

\* -------------------------------------------------------------------- LRU
\* eviction at the wrong end of the sequence
LRUPopFront(o) == [key |-> o[1], rest |-> SubSeq(o, 2, Len(o))]

\* order.pop_back(): the key LRUCache::put evicts and what is left
LRUPop(o) == [key |-> o[Len(o)], rest |-> SubSeq(o, 1, Len(o) - 1)]

\* a get that sets the deadline back to the instant of the read
LRUGetExpiryBack(e, t) == t

\* the expires_at LRUCache::get leaves in a live entry it has just read
LRUGetExpiry(e, t) == e.expires_at

\* a put that tests the capacity before it drops the key's old position
LRU_putNoRetain(key, value) ==
    /\ strat = "LRU" /\ pending = << >>
    /\ LET evict == AtCapacity(Len(order), capacity) /\ Len(order) > 0
           o2 == IF evict THEN LRUPop(order).rest ELSE order
           m2 == IF evict THEN MapRemove(map, LRUPop(order).key) ELSE map
           m3 == MapInsert(m2, key, [value |-> value, expires_at |-> Expiry(now)])
       IN  /\ order' = <<key>> \o Without(o2, key)
           /\ map' = m3
           /\ Did("put", key, << >>, m3)
           /\ lastUse' = Touch(lastUse, key, m3)
    /\ FgFrame /\ UNCHANGED <<freq_map, pending, insOrder>>

LRU_put(key, value) ==
    /\ strat = "LRU" /\ pending = << >>
    /\ LET o1 == IF key \in DOMAIN map THEN Without(order, key) ELSE order
           evict == AtCapacity(Len(o1), capacity) /\ Len(o1) > 0
           o2 == IF evict THEN LRUPop(o1).rest ELSE o1
           m2 == IF evict THEN MapRemove(map, LRUPop(o1).key) ELSE map
           m3 == MapInsert(m2, key, [value |-> value, expires_at |-> Expiry(now)])
       IN  /\ order' = <<key>> \o o2
           /\ map' = m3
           /\ Did("put", key, << >>, m3)
           /\ lastUse' = Touch(lastUse, key, m3)
    /\ FgFrame /\ UNCHANGED <<freq_map, pending, insOrder>>

LRU_get(key) ==
    /\ strat = "LRU" /\ pending = << >>
    /\ IF key \in DOMAIN map
       THEN IF Live(map[key], now)
            THEN /\ order' = <<key>> \o Without(order, key)
                 /\ map' = [map EXCEPT ![key].expires_at = LRUGetExpiry(map[key], now)]
                 /\ Did("get", key, <<map[key].value>>, map)
                 /\ lastUse' = Touch(lastUse, key, map)
            ELSE /\ map' = MapRemove(map, key)
                 /\ order' = Without(order, key)
                 /\ Did("get", key, << >>, MapRemove(map, key))
                 /\ lastUse' = InStore(lastUse, MapRemove(map, key))
       ELSE /\ Did("get", key, << >>, map)
            /\ UNCHANGED <<map, order, lastUse>>
    /\ FgFrame /\ UNCHANGED <<freq_map, pending, insOrder>>

\* LRUCache::remove and FIFOCache::remove are the same code
Seq_remove(key) ==
    /\ strat \in {"LRU", "FIFO"} /\ pending = << >>
    /\ map' = MapRemove(map, key)
    /\ order' = Without(order, key)
    /\ Did("remove", key, << >>, MapRemove(map, key))
    /\ lastUse' = InStore(lastUse, MapRemove(map, key))
    /\ insOrder' = InStore(insOrder, MapRemove(map, key))
    /\ FgFrame /\ UNCHANGED <<freq_map, pending>>

\* a clear that forgets the order sequence
Seq_clearStoreOnly ==
    /\ strat \in {"LRU", "FIFO"} /\ pending = << >>
    /\ map' = << >>
    /\ order' = order
    /\ Did("clear", "-", << >>, << >>)
    /\ lastUse' = << >>
    /\ insOrder' = << >>
    /\ FgFrame /\ UNCHANGED <<freq_map, pending>>

\* LRUCache::clear and FIFOCache::clear are the same code
Seq_clear ==
    /\ strat \in {"LRU", "FIFO"} /\ pending = << >>
    /\ map' = << >>
    /\ order' = << >>
    /\ Did("clear", "-", << >>, << >>)
    /\ lastUse' = << >>
    /\ insOrder' = << >>
    /\ FgFrame /\ UNCHANGED <<freq_map, pending>>

\* the sweep of the LRU cleaner task: order.retain with map.remove inside
LRUSweepOrder(m, o, t) == SelectSeq(o, LAMBDA k : k \in DOMAIN m /\ Live(m[k], t))

\* a sweep that forgets map.remove
LRUSweepMapKeepAll(m, o, t) == m

LRUSweepMap(m, o, t) == MapRestrict(m, (DOMAIN m) \ (Range(o) \cap ExpiredKeys(m, t)))

\* ------------------------------------------------------------------- FIFO
\* eviction at the wrong end of the sequence
FIFOPopBack(o) == [key |-> o[Len(o)], rest |-> SubSeq(o, 1, Len(o) - 1)]

\* order.pop_front(): the key FIFOCache::put evicts and what is left
FIFOPop(o) == [key |-> o[1], rest |-> SubSeq(o, 2, Len(o))]

\* a duplicate put that overwrites the value
FIFODuplicateOverwrite(m, key, value, t) == [m EXCEPT ![key].value = value]

\* what FIFOCache::put does to the Store for a key that is already there:
\* it returns at once
FIFODuplicate(m, key, value, t) == m

\* a put that writes the value and a new deadline over an expired entry
FIFO_putRevive(key, value) ==
    /\ strat = "FIFO" /\ pending = << >>
    /\ IF key \in DOMAIN map
       THEN /\ map' = IF Live(map[key], now)
                      THEN map
                      ELSE [map EXCEPT ![key] = [value |-> value,
                                                 expires_at |-> Expiry(now)]]
            /\ Did("put", key, << >>, map)
            /\ UNCHANGED <<order, insOrder>>
       ELSE LET evict == AtCapacity(Len(order), capacity) /\ Len(order) > 0
                o2 == IF evict THEN FIFOPop(order).rest ELSE order
                m2 == IF evict THEN MapRemove(map, FIFOPop(order).key) ELSE map
                m3 == MapInsert(m2, key, [value |-> value, expires_at |-> Expiry(now)])
            IN  /\ order' = o2 \o <<key>>
                /\ map' = m3
                /\ Did("put", key, << >>, m3)
                /\ insOrder' = Inserted(insOrder, key, m3)
    /\ FgFrame /\ UNCHANGED <<freq_map, pending, lastUse>>

\* FIFOCache::put: nothing for a key in the Store, else evict the oldest and insert
FIFO_put(key, value) ==
    /\ strat = "FIFO" /\ pending = << >>
    /\ IF key \in DOMAIN map
       THEN /\ map' = FIFODuplicate(map, key, value, now)
            /\ Did("put", key, << >>, map)
            /\ UNCHANGED <<order, insOrder>>
       ELSE LET evict == AtCapacity(Len(order), capacity) /\ Len(order) > 0
                o2 == IF evict THEN FIFOPop(order).rest ELSE order
                m2 == IF evict THEN MapRemove(map, FIFOPop(order).key) ELSE map
                m3 == MapInsert(m2, key, [value |-> value, expires_at |-> Expiry(now)])
            IN  /\ order' = o2 \o <<key>>
                /\ map' = m3
                /\ Did("put", key, << >>, m3)
                /\ insOrder' = Inserted(insOrder, key, m3)
    /\ FgFrame /\ UNCHANGED <<freq_map, pending, lastUse>>

\* a get that refreshes the expires_at of the live entry it reads
FIFO_getRefresh(key) ==
    /\ strat = "FIFO" /\ pending = << >>
    /\ IF key \in DOMAIN map /\ ~Live(map[key], now)
       THEN /\ pending' = <<key>>
            /\ Did("get_check", key, << >>, map)
            /\ map' = map
       ELSE /\ pending' = pending
            /\ Did("get", key,
                   IF key \in DOMAIN map THEN <<map[key].value>> ELSE << >>, map)
            /\ map' = IF key \in DOMAIN map
                      THEN [map EXCEPT ![key].expires_at = Expiry(now)]
                      ELSE map
    /\ FgFrame /\ UNCHANGED <<order, freq_map, lastUse, insOrder>>

\* FIFOCache::get up to `drop(map)`: the check under the Store lock
FIFO_get(key) ==
    /\ strat = "FIFO" /\ pending = << >>
    /\ IF key \in DOMAIN map /\ ~Live(map[key], now)
       THEN /\ pending' = <<key>>
            /\ Did("get_check", key, << >>, map)
       ELSE /\ pending' = pending
            /\ Did("get", key,
                   IF key \in DOMAIN map THEN <<map[key].value>> ELSE << >>, map)
    /\ FgFrame /\ UNCHANGED <<map, order, freq_map, lastUse, insOrder>>

\* a second half of get that takes the key out of the Store only
FIFO_get_relockStoreOnly ==
    /\ strat = "FIFO" /\ pending # << >>
    /\ map' = MapRemove(map, pending[1])
    /\ order' = order
    /\ pending' = << >>
    /\ Did("get", pending[1], << >>, MapRemove(map, pending[1]))
    /\ insOrder' = InStore(insOrder, MapRemove(map, pending[1]))
    /\ FgFrame /\ UNCHANGED <<freq_map, lastUse>>

\* FIFOCache::get after `drop(map)`: both locks re-taken, the key removed
FIFO_get_relock ==
    /\ strat = "FIFO" /\ pending # << >>
    /\ map' = MapRemove(map, pending[1])
    /\ order' = Without(order, pending[1])
    /\ pending' = << >>
    /\ Did("get", pending[1], << >>, MapRemove(map, pending[1]))
    /\ insOrder' = InStore(insOrder, MapRemove(map, pending[1]))
    /\ FgFrame /\ UNCHANGED <<freq_map, lastUse>>

\* the sweep of the FIFO cleaner task: order.retain, then map.retain
FIFOSweepOrder(m, o, t) == SelectSeq(o, LAMBDA k : k \in DOMAIN m /\ Live(m[k], t))

\* a map.retain that keeps the entries that expire at the instant of the sweep
FIFOSweepMapLate(m, o, t) == MapRestrict(m, {k \in DOMAIN m : m[k].expires_at >= t})

FIFOSweepMap(m, o, t) == MapRestrict(m, (DOMAIN m) \ ExpiredKeys(m, t))

\* -------------------------------------------------------------------- LFU
\* the keys LFUCache::put may pick for eviction: any key of the bucket of
\* the smallest frequency (HashSet iteration order), none when the index
\* is empty
LFUCandidates(fm) == IF DOMAIN fm = {} THEN {} ELSE fm[MinFreq(fm)]

\* an overwrite that starts the frequency again
LFUPutFrequencyReset(e) == 1

\* the frequency LFUCache::put leaves in an entry it overwrites
LFUPutFrequency(e) == e.frequency

\* a read that does not count
LFUGetFrequencyKeep(e) == e.frequency

\* the frequency LFUCache::get gives to a live entry it reads
LFUGetFrequency(e) == e.frequency + 1

\* a put that restarts the frequency of an expired entry at 1
LFU_put_existingRestart(key, value) ==
    /\ strat = "LFU" /\ pending = << >>
    /\ key \in DOMAIN map
    /\ map' = [map EXCEPT ![key] = [value |-> value, expires_at |-> Expiry(now),
                                    frequency |-> IF Live(map[key], now)
                                                  THEN LFUPutFrequency(map[key])
                                                  ELSE 1]]
    /\ Did("put", key, << >>, map)
    /\ FgFrame /\ UNCHANGED <<order, freq_map, pending, lastUse, insOrder>>

\* LFUCache::put on a key that is in the Store: overwrite in place
LFU_put_existing(key, value) ==
    /\ strat = "LFU" /\ pending = << >>
    /\ key \in DOMAIN map
    /\ map' = [map EXCEPT ![key] = [value |-> value, expires_at |-> Expiry(now),
                                    frequency |-> LFUPutFrequency(map[key])]]
    /\ Did("put", key, << >>, map)
    /\ FgFrame /\ UNCHANGED <<order, freq_map, pending, lastUse, insOrder>>

\* LFUCache::put on a key that is not in the Store, below capacity or with
\* nothing in the index to evict
LFU_put_new(key, value) ==
    /\ strat = "LFU" /\ pending = << >>
    /\ key \notin DOMAIN map
    /\ ~AtCapacity(Cardinality(DOMAIN map), capacity) \/ LFUCandidates(freq_map) = {}
    /\ map' = MapInsert(map, key, [value |-> value, expires_at |-> Expiry(now),
                                   frequency |-> 1])
    /\ freq_map' = BucketInsert(freq_map, 1, key)
    /\ Did("put", key, << >>, MapInsert(map, key, [value |-> value,
                                                   expires_at |-> Expiry(now),
                                                   frequency |-> 1]))
    /\ FgFrame /\ UNCHANGED <<order, pending, lastUse, insOrder>>

\* LFUCache::put on a key that is not in the Store, at capacity: one key of
\* the lowest bucket leaves the index and is removed from the Store
LFU_put_evict(key, value) ==
    /\ strat = "LFU" /\ pending = << >>
    /\ key \notin DOMAIN map
    /\ AtCapacity(Cardinality(DOMAIN map), capacity)
    /\ \E k \in LFUCandidates(freq_map) :
         LET fm2 == BucketRemove(freq_map, MinFreq(freq_map), k)
             m2 == MapRemove(map, k)
             m3 == MapInsert(m2, key, [value |-> value, expires_at |-> Expiry(now),
                                       frequency |-> 1])
         IN  /\ map' = m3
             /\ freq_map' = BucketInsert(fm2, 1, key)
             /\ Did("put", key, << >>, m3)
    /\ FgFrame /\ UNCHANGED <<order, pending, lastUse, insOrder>>

LFU_get(key) ==
    /\ strat = "LFU" /\ pending = << >>
    /\ IF key \in DOMAIN map
       THEN IF ~Live(map[key], now)
            THEN /\ map' = MapRemove(map, key)
                 /\ freq_map' = BucketRemove(freq_map, map[key].frequency, key)
                 /\ Did("get", key, << >>, MapRemove(map, key))
            ELSE /\ map[key].frequency < MaxFreq
                 /\ map' = [map EXCEPT ![key].frequency = LFUGetFrequency(map[key])]
                 /\ freq_map' = BucketInsert(
                                  BucketRemove(freq_map, map[key].frequency, key),
                                  LFUGetFrequency(map[key]), key)
                 /\ Did("get", key, <<map[key].value>>, map)
       ELSE /\ Did("get", key, << >>, map)
            /\ UNCHANGED <<map, freq_map>>
    /\ FgFrame /\ UNCHANGED <<order, pending, lastUse, insOrder>>

LFU_remove(key) ==
    /\ strat = "LFU" /\ pending = << >>
    /\ map' = MapRemove(map, key)
    /\ freq_map' = IF key \in DOMAIN map
                   THEN BucketRemove(freq_map, map[key].frequency, key)
                   ELSE freq_map
    /\ Did("remove", key, << >>, MapRemove(map, key))
    /\ FgFrame /\ UNCHANGED <<order, pending, lastUse, insOrder>>

LFU_clear ==
    /\ strat = "LFU" /\ pending = << >>
    /\ map' = << >>
    /\ freq_map' = << >>
    /\ Did("clear", "-", << >>, << >>)
    /\ FgFrame /\ UNCHANGED <<order, pending, lastUse, insOrder>>

\* the sweep of the cleaner task spawned by LFUCache::new: every expired
\* key leaves the Store and the bucket of its frequency
LFUNewSweepMap(m, t) == MapRestrict(m, (DOMAIN m) \ ExpiredKeys(m, t))

LFUNewSweepFreq(m, fm, t) ==
    LET left(f) == fm[f] \ {k \in ExpiredKeys(m, t) : m[k].frequency = f}
        touched == {m[k].frequency : k \in ExpiredKeys(m, t)}
    IN  [f \in {g \in DOMAIN fm : ~(g \in touched /\ left(g) = {})} |-> left(f)]

\* the sweep of the cleaner task spawned by LFUCache::start_cleaner:
\* map.retain only, the frequency index is not touched
LFUStartSweepMap(m, t) == MapRestrict(m, (DOMAIN m) \ ExpiredKeys(m, t))

LFUStartSweepFreq(m, fm, t) == fm

\* ------------------------------------------------ read-only foreground calls
\* a contains that looks at expires_at
ContainsLive(key) ==
    /\ pending = << >>
    /\ strat = "LFU" => key \in LFUKeys
    /\ Did("contains", key, <<key \in DOMAIN map /\ Live(map[key], now)>>, map)
    /\ FgFrame /\ UNCHANGED <<map, order, freq_map, pending, lastUse, insOrder>>

Contains(key) ==
    /\ pending = << >>
    /\ strat = "LFU" => key \in LFUKeys
    /\ Did("contains", key, <<key \in DOMAIN map>>, map)
    /\ FgFrame /\ UNCHANGED <<map, order, freq_map, pending, lastUse, insOrder>>

Length ==
    /\ pending = << >>
    /\ Did("len", "-", <<Cardinality(DOMAIN map)>>, map)
    /\ FgFrame /\ UNCHANGED <<map, order, freq_map, pending, lastUse, insOrder>>

IsEmpty ==
    /\ pending = << >>
    /\ Did("is_empty", "-", <<DOMAIN map = {}>>, map)
    /\ FgFrame /\ UNCHANGED <<map, order, freq_map, pending, lastUse, insOrder>>

\* ---------------------------------------------------------------- cleaners
\* A cleaner task is at "start" (spawned or back at the top of its loop, no
\* Notified future alive), "waiting" (inside select!, sleep and notified()
\* both pending), "notified" (woken by notify_waiters, not yet polled) or
\* "stopped" (left the loop).
SetPc(i, pc) == [cleaners EXCEPT ![i].pc = pc]

CleanerFrame == UNCHANGED <<strat, capacity, ttl, now, pending, locks, todo>>

\* the task reaches select!
CleanerSelect(i) ==
    /\ cleaners[i].pc = "start"
    /\ cleaners' = SetPc(i, "waiting")
    /\ CleanerFrame /\ UNCHANGED <<map, order, freq_map, last, lastUse, insOrder>>

\* a sweep that takes nothing out of the Store
SweepMapNothing(i) == map

\* the Store and the Order Index after the sweep of cleaner i
SweepMap(i) ==
    CASE strat = "LRU" -> LRUSweepMap(map, order, now)
      [] strat = "FIFO" -> FIFOSweepMap(map, order, now)
      [] strat = "LFU" /\ cleaners[i].kind = "new" -> LFUNewSweepMap(map, now)
      [] OTHER -> LFUStartSweepMap(map, now)

SweepOrder(i) ==
    CASE strat = "LRU" -> LRUSweepOrder(map, order, now)
      [] strat = "FIFO" -> FIFOSweepOrder(map, order, now)
      [] OTHER -> order

SweepFreq(i) ==
    CASE strat = "LFU" /\ cleaners[i].kind = "new" -> LFUNewSweepFreq(map, freq_map, now)
      [] strat = "LFU" -> LFUStartSweepFreq(map, freq_map, now)
      [] OTHER -> freq_map

\* what a sweep of cleaner i does to the Store, the Order Index and the
\* history
Sweep(i) ==
    /\ map' = SweepMap(i)
    /\ order' = SweepOrder(i)
    /\ freq_map' = SweepFreq(i)
    /\ Did("sweep", "-", << >>, SweepMap(i))
    /\ lastUse' = InStore(lastUse, SweepMap(i))
    /\ insOrder' = InStore(insOrder, SweepMap(i))

\* the sleep branch of select! wins: one sweep under the locks, then back
\* to the top of the loop
CleanerSweep(i) ==
    /\ cleaners[i].pc \in {"waiting", "notified"}
    /\ Sweep(i)
    /\ cleaners' = SetPc(i, "start")
    /\ CleanerFrame

\* one round of the loop of a task nobody stops: select!, the sleep
\* elapses, the sweep, back to the top.  It is CleanerSelect followed by
\* CleanerSweep; with no stop_cleaner call nothing can tell the two apart.
CleanerRound(i) ==
    /\ cleaners[i].pc = "start"
    /\ Sweep(i)
    /\ UNCHANGED cleaners
    /\ CleanerFrame

\* the notified() branch of select! wins: break
CleanerBreak(i) ==
    /\ cleaners[i].pc = "notified"
    /\ cleaners' = SetPc(i, "stopped")
    /\ CleanerFrame /\ UNCHANGED <<map, order, freq_map, last, lastUse, insOrder>>

\* a start_cleaner whose task finds a stop signal left pending
StartCleanerPending ==
    /\ pending = << >>
    /\ Len(cleaners) < MaxCleaners
    /\ cleaners' = Append(cleaners, [kind |-> "start_cleaner",
                                     pc |-> IF last.op = "stop_cleaner"
                                            THEN "notified" ELSE "start"])
    /\ Did("start_cleaner", "-", << >>, map)
    /\ UNCHANGED <<strat, capacity, ttl, map, order, freq_map, now, pending, lastUse, insOrder,
                   locks, todo>>

\* start_cleaner: one more task
StartCleaner ==
    /\ pending = << >>
    /\ Len(cleaners) < MaxCleaners
    /\ cleaners' = Append(cleaners, [kind |-> "start_cleaner", pc |-> "start"])
    /\ Did("start_cleaner", "-", << >>, map)
    /\ UNCHANGED <<strat, capacity, ttl, map, order, freq_map, now, pending, lastUse, insOrder,
                   locks, todo>>

\* stop_cleaner: notify_waiters wakes the tasks that are waiting now
StopCleaner ==
    /\ pending = << >>
    /\ cleaners' = [i \in DOMAIN cleaners |->
                      IF cleaners[i].pc = "waiting"
                      THEN [cleaners[i] EXCEPT !.pc = "notified"]
                      ELSE cleaners[i]]
    /\ Did("stop_cleaner", "-", << >>, map)
    /\ UNCHANGED <<strat, capacity, ttl, map, order, freq_map, now, pending, lastUse, insOrder,
                   locks, todo>>

\* the wall clock advances
Tick ==
    /\ now < MaxTime
    /\ now' = now + 1
    /\ UNCHANGED <<strat, capacity, ttl, map, order, freq_map, cleaners, pending, last, lastUse,
                   insOrder, locks, todo>>

Next ==
    \/ \E k \in Keys, v \in Values : LRU_put(k, v)
    \/ \E k \in Keys : LRU_get(k)
    \/ \E k \in Keys : Seq_remove(k)
    \/ Seq_clear
    \/ \E k \in Keys, v \in Values : FIFO_put(k, v)
    \/ \E k \in Keys : FIFO_get(k)
    \/ FIFO_get_relock
    \/ \E k \in LFUKeys, v \in Values : LFU_put_existing(k, v)
    \/ \E k \in LFUKeys, v \in Values : LFU_put_new(k, v)
    \/ \E k \in LFUKeys, v \in Values : LFU_put_evict(k, v)
    \/ \E k \in LFUKeys : LFU_get(k)
    \/ \E k \in LFUKeys : LFU_remove(k)
    \/ LFU_clear
    \/ \E k \in Keys : Contains(k)
    \/ Length
    \/ IsEmpty
    \/ \E i \in DOMAIN cleaners : CleanerRound(i)
    \/ Tick

\* a cache built by the facade whose caller uses the data methods and
\* leaves the two cleaner tasks of Rustycache::new running
Spec == Init /\ [][Next]_vars

\* ------------------------------------------------- the life of the cleaners
\* a step of cleaner task i, when there is such a task
CleanerStep(i) ==
    /\ i \in DOMAIN cleaners
    /\ CleanerSelect(i) \/ CleanerSweep(i) \/ CleanerBreak(i)

\* the value the caller of this specification puts
OneValue == CHOOSE v \in Values : TRUE

NextLife ==
    \/ \E k \in LFUKeys : LRU_put(k, OneValue)
    \/ \E k \in LFUKeys : FIFO_put(k, OneValue)
    \/ \E k \in LFUKeys : LFU_put_existing(k, OneValue)
    \/ \E k \in LFUKeys : LFU_put_new(k, OneValue)
    \/ \E k \in LFUKeys : LFU_put_evict(k, OneValue)
    \/ \E i \in DOMAIN cleaners : CleanerSelect(i)
    \/ \E i \in DOMAIN cleaners : CleanerSweep(i)
    \/ \E i \in DOMAIN cleaners : CleanerBreak(i)
    \/ StopCleaner
    \/ Tick

\* the runtime polls every spawned task that can make a step: a task at the
\* top of its loop reaches select!, the sleep of a task inside select!
\* elapses
FairLife == \A i \in 1..MaxCleaners : WF_vars(CleanerStep(i))

\* a cache built by the facade whose caller puts and calls stop_cleaner, and
\* never reads: the two cleaner tasks of Rustycache::new run, fairly
\* scheduled, until they leave their loop
SpecLife == Init /\ [][NextLife]_vars /\ FairLife

\* the same caller, who also calls start_cleaner; no fairness is asked
NextTasks ==
    \/ NextLife
    \/ StartCleaner

\* the smallest cache: the life of the tasks does not depend on the data
InitTasks == Init /\ capacity = 1 /\ ttl = 1

SpecTasks == InitTasks /\ [][NextTasks]_vars

\* ----------------------------------------------------------------- locking
\* `locks` gives for each of the two mutexes the set of threads that hold it
\* (empty or one thread); `todo[t]` is what thread t has still to do with the
\* locks in the method or sweep it is running.
Lock(l) == [act |-> "lock", on |-> l]

Unlock(l) == [act |-> "unlock", on |-> l]

\* `let map = self.map.lock()` then `let order = self.order.lock()`; the
\* guards are dropped at the end of the scope, the last declared first
BothLocks == <<Lock("Store"), Lock("Index"), Unlock("Index"), Unlock("Store")>>

\* `let map = self.map.lock()` alone
StoreOnly == <<Lock("Store"), Unlock("Store")>>

\* FIFOCache::get on an expired entry: the Store guard is dropped, then both
\* locks are taken
FIFOGetExpired == StoreOnly \o BothLocks

LockOps == {"put", "get", "get_expired", "remove", "clear", "contains", "len", "is_empty"}

\* what a method of the caller does with the locks
LockProgram(op) ==
    CASE op \in {"put", "remove", "clear"} -> BothLocks
      [] op \in {"contains", "len", "is_empty"} -> StoreOnly
      [] op = "get" /\ strat = "FIFO" -> StoreOnly
      [] op = "get_expired" /\ strat = "FIFO" -> FIFOGetExpired
      [] OTHER -> BothLocks

\* a sweep that takes the Order Index first
SweepProgramIndexFirst(i) ==
    <<Lock("Index"), Lock("Store"), Unlock("Store"), Unlock("Index")>>

\* what the sweep of cleaner task i does with the locks
SweepProgram(i) ==
    IF strat = "LFU" /\ cleaners[i].kind = "start_cleaner" THEN StoreOnly ELSE BothLocks

LockFrame ==
    UNCHANGED <<strat, capacity, ttl, map, order, freq_map, now, cleaners, pending,
                last, lastUse, insOrder>>

\* the caller enters a method
Call(op) ==
    /\ todo[0] = << >>
    /\ todo' = [todo EXCEPT ![0] = LockProgram(op)]
    /\ UNCHANGED locks /\ LockFrame

\* the sleep of cleaner task i elapses: it enters its sweep
CleanerWake(i) ==
    /\ cleaners[i].pc # "stopped"
    /\ todo[i] = << >>
    /\ todo' = [todo EXCEPT ![i] = SweepProgram(i)]
    /\ UNCHANGED locks /\ LockFrame

\* thread t takes the lock it asks for, if nobody holds it, or drops a guard
LockStep(t) ==
    /\ todo[t] # << >>
    /\ LET s == Head(todo[t])
       IN  IF s.act = "lock"
           THEN /\ locks[s.on] = {}
                /\ locks' = [locks EXCEPT ![s.on] = {t}]
           ELSE locks' = [locks EXCEPT ![s.on] = {}]
    /\ todo' = [todo EXCEPT ![t] = Tail(@)]
    /\ LockFrame

\* start_cleaner takes no lock: it spawns one more task
CallStartCleaner == todo[0] = << >> /\ StartCleaner

NextLocks ==
    \/ \E op \in LockOps : Call(op)
    \/ \E i \in DOMAIN cleaners : CleanerWake(i)
    \/ \E t \in Threads : LockStep(t)
    \/ CallStartCleaner

\* the caller and the cleaner tasks of a cache, seen at their locks
SpecLocks == Init /\ [][NextLocks]_vars

\* ------------------------------------- the standalone LRUCache (lru_cache.rs)
\* LRUCache::new of lru_cache.rs: an empty cache and one cleaner task
InitLRUCache ==
    /\ strat = "LRUCache"
    /\ capacity \in 1..MaxCapacity
    /\ ttl \in 1..MaxTtl
    /\ map = << >>
    /\ order = << >>
    /\ freq_map = << >>
    /\ now = 0
    /\ cleaners = << [kind |-> "new", pc |-> "start"] >>
    /\ pending = << >>
    /\ last = [op |-> "new", key |-> "-", ret |-> << >>, gone |-> {}, fresh |-> << >>,
               stale |-> FALSE]
    /\ lastUse = << >>
    /\ insOrder = << >>
    /\ locks = [Store |-> {}, Index |-> {}]
    /\ todo = [t \in Threads |-> << >>]

\* a get that leaves expires_at as it is
LRUCacheGetExpiryKeep(e, t) == e.expires_at

\* `entry.expires_at = Utc::now() + ttl` in the live branch of get
LRUCacheGetExpiry(e, t) == Expiry(t)

LRUCache_put(key, value) ==
    /\ strat = "LRUCache"
    /\ LET o1 == IF key \in DOMAIN map THEN Without(order, key) ELSE order
           evict == AtCapacity(Len(o1), capacity) /\ Len(o1) > 0
           o2 == IF evict THEN LRUPop(o1).rest ELSE o1
           m2 == IF evict THEN MapRemove(map, LRUPop(o1).key) ELSE map
           m3 == MapInsert(m2, key, [value |-> value, expires_at |-> Expiry(now)])
       IN  /\ order' = <<key>> \o o2
           /\ map' = m3
           /\ Did("put", key, << >>, m3)
           /\ lastUse' = Touch(lastUse, key, m3)
    /\ FgFrame /\ UNCHANGED <<freq_map, pending, insOrder>>

LRUCache_get(key) ==
    /\ strat = "LRUCache"
    /\ IF key \in DOMAIN map
       THEN IF Live(map[key], now)
            THEN /\ map' = [map EXCEPT ![key].expires_at = LRUCacheGetExpiry(map[key], now)]
                 /\ order' = <<key>> \o Without(order, key)
                 /\ Did("get", key, <<map[key].value>>, map)
                 /\ lastUse' = Touch(lastUse, key, map)
            ELSE /\ map' = MapRemove(map, key)
                 /\ order' = Without(order, key)
                 /\ Did("get", key, << >>, MapRemove(map, key))
                 /\ lastUse' = InStore(lastUse, MapRemove(map, key))
       ELSE /\ Did("get", key, << >>, map)
            /\ UNCHANGED <<map, order, lastUse>>
    /\ FgFrame /\ UNCHANGED <<freq_map, pending, insOrder>>

LRUCache_contains(key) ==
    /\ strat = "LRUCache"
    /\ Did("contains", key, <<key \in DOMAIN map>>, map)
    /\ FgFrame /\ UNCHANGED <<map, order, freq_map, pending, lastUse, insOrder>>

LRUCache_remove(key) ==
    /\ strat = "LRUCache"
    /\ map' = MapRemove(map, key)
    /\ order' = Without(order, key)
    /\ Did("remove", key, << >>, MapRemove(map, key))
    /\ lastUse' = InStore(lastUse, MapRemove(map, key))
    /\ FgFrame /\ UNCHANGED <<freq_map, pending, insOrder>>

\* one round of the cleaner task of LRUCache::new: the sleep elapses, the
\* sweep (the same order.retain as in strategy/lru.rs), back to select!
LRUCache_sweep ==
    /\ strat = "LRUCache"
    /\ cleaners[1].pc = "start"
    /\ map' = LRUSweepMap(map, order, now)
    /\ order' = LRUSweepOrder(map, order, now)
    /\ Did("sweep", "-", << >>, LRUSweepMap(map, order, now))
    /\ lastUse' = InStore(lastUse, LRUSweepMap(map, order, now))
    /\ UNCHANGED <<freq_map, cleaners, insOrder>>
    /\ CleanerFrame

NextLRUCache ==
    \/ \E k \in Keys, v \in Values : LRUCache_put(k, v)
    \/ \E k \in Keys : LRUCache_get(k)
    \/ \E k \in Keys : LRUCache_contains(k)
    \/ \E k \in Keys : LRUCache_remove(k)
    \/ LRUCache_sweep
    \/ Tick

\* the standalone LRUCache with its cleaner task left running
SpecLRUCache == InitLRUCache /\ [][NextLRUCache]_vars

\* -------------------------------------------------------------- properties
Size == Cardinality(DOMAIN map)

NoDuplicates(s) == Len(s) = Cardinality(Range(s))

\* C1: LRU and FIFO, capacity >= 1: the Store never holds more than
\* `capacity` entries, whatever calls and sweeps have run.
C1_SeqCapacity == strat \in {"LRU", "FIFO"} => Size <= capacity

\* a put has just evicted a key and the Store is full
C1_Witness ==
    /\ strat \in {"LRU", "FIFO"}
    /\ last.op = "put" /\ last.gone # {}
    /\ Size = capacity

\* C2: LFU built through the facade, capacity >= 1: the Store never holds
\* more than `capacity` entries, whatever calls and sweeps of both kinds of
\* cleaner have run.
C2_LFUCapacity == strat = "LFU" => Size <= capacity

\* C3: LRU and FIFO: the keys of the Store are the keys of the order
\* sequence, and the sequence holds no key twice.
C3_SeqBijection ==
    strat \in {"LRU", "FIFO"} => DOMAIN map = Range(order) /\ NoDuplicates(order)

\* a sweep has just removed an expired key and left another one
C3_Witness ==
    /\ strat \in {"LRU", "FIFO"}
    /\ last.op = "sweep" /\ last.gone # {}
    /\ map # << >>

\* C4: LFU: a key is in the Store exactly when it is in the frequency index,
\* and it is in one bucket only, the one of its entry's frequency.
C4_LFUBijection ==
    strat = "LFU" =>
        /\ DOMAIN map = IndexKeys(freq_map)
        /\ \A k \in DOMAIN map : \A f \in DOMAIN freq_map :
              k \in freq_map[f] <=> f = map[k].frequency

\* every entry of m except those of the keys in S is in m2, unchanged
Kept(m, m2, S) == \A x \in (DOMAIN m) \ S : x \in DOMAIN m2 /\ m2[x] = m[x]

\* C5: LRU: a put of a key that is not in the Store, on a full Store, evicts
\* exactly the least recently used key of the Store (the last of lastUse)
\* and keeps every other entry as it was.
C5_LRUEvictsLeastRecentlyUsed ==
    [][\A k \in Keys, v \in Values :
          (LRU_put(k, v) /\ k \notin DOMAIN map /\ Size = capacity) =>
              /\ last'.gone = {lastUse[Len(lastUse)]}
              /\ DOMAIN map' = ((DOMAIN map) \ last'.gone) \cup {k}
              /\ Kept(map, map', last'.gone)]_vars

\* a put on a full LRU Store of two has just evicted a key
C5_Witness ==
    /\ strat = "LRU" /\ capacity = 2
    /\ last.op = "put" /\ last.gone # {}
    /\ Size = 2 /\ order[1] = last.key

\* C6: FIFO: a put of a key that is not in the Store, on a full Store, evicts
\* exactly the earliest inserted key of the Store (the first of insOrder);
\* a get that returns a value and a put of a key that is in the Store leave
\* the order sequence, hence the next key to evict, as it was.
C6_FIFOEvictsEarliestInserted ==
    [][\A k \in Keys, v \in Values :
          /\ (FIFO_put(k, v) /\ k \notin DOMAIN map /\ Size = capacity) =>
                /\ last'.gone = {insOrder[1]}
                /\ DOMAIN map' = ((DOMAIN map) \ last'.gone) \cup {k}
                /\ Kept(map, map', last'.gone)
          /\ (FIFO_put(k, v) /\ k \in DOMAIN map) => order' = order
          /\ (FIFO_get(k) /\ last'.op = "get" /\ last'.ret # << >>) => order' = order]_vars

\* a put on a full FIFO Store of two has just evicted a key
C6_Witness ==
    /\ strat = "FIFO" /\ capacity = 2
    /\ last.op = "put" /\ last.gone # {}
    /\ Size = 2 /\ order[2] = last.key

\* C7: LFU: a put of a key that is not in the Store, on a full Store, removes
\* exactly one key from the Store, one of minimal frequency in the Store.
C7_LFUEvictsMinFrequency ==
    [][\A k \in Keys, v \in Values :
          ((LFU_put_evict(k, v) \/ LFU_put_new(k, v)) /\ Size = capacity) =>
              \E x \in DOMAIN map :
                  /\ last'.gone = {x}
                  /\ \A y \in DOMAIN map : map[x].frequency <= map[y].frequency]_vars

\* C8: FIFO: a put of a key that is in the Store changes nothing (Store,
\* order sequence, no eviction), full Store or not; no step changes an entry
\* that stays in the Store, and a get returns the value the entry holds: the
\* first one written.
C8_FIFODuplicatePutNoOp ==
    [][/\ \A k \in Keys, v \in Values :
            (FIFO_put(k, v) /\ k \in DOMAIN map) =>
                map' = map /\ order' = order /\ last'.gone = {}
       /\ \A k \in Keys :
            (FIFO_get(k) /\ k \in DOMAIN map /\ Live(map[k], now)) =>
                last'.ret = <<map[k].value>>
       /\ strat = "FIFO" => Kept(map, map', (DOMAIN map) \ (DOMAIN map'))]_vars

\* a put of a key that was already in a full FIFO Store has just returned:
\* the key is not at the back of the sequence, where an insertion puts it
C8_Witness ==
    /\ strat = "FIFO"
    /\ last.op = "put" /\ last.gone = {}
    /\ last.key \in DOMAIN map
    /\ Size = capacity
    /\ order[Len(order)] # last.key

\* C9: LRU: a get of a live entry sets its expires_at to now + ttl.
C9_LRUGetRefreshesTTL ==
    [][\A k \in Keys :
          (LRU_get(k) /\ k \in DOMAIN map /\ Live(map[k], now)) =>
              map'[k].expires_at = now + ttl]_vars

\* the keys the Order Index of the engine holds
OrderIndexKeys(o, fm) == IF strat = "LFU" THEN IndexKeys(fm) ELSE Range(o)

\* the step is the return of get(k)
GetReturns(k) ==
    \/ LRU_get(k)
    \/ LFU_get(k)
    \/ FIFO_get(k) /\ last'.op = "get"
    \/ FIFO_get_relock /\ pending = <<k>>

\* C10: all engines: a get never returns the value of an expired entry; a
\* get of an expired entry returns nothing and leaves the key in neither the
\* Store nor the Order Index, every other entry being as it was.
C10_GetNeverReturnsExpired ==
    [][\A k \in Keys :
          /\ (GetReturns(k) /\ last'.ret # << >>) =>
                k \in DOMAIN map /\ Live(map[k], now)
          /\ (GetReturns(k) /\ (pending = <<k>> \/ (k \in DOMAIN map /\ ~Live(map[k], now)))) =>
                /\ last'.ret = << >>
                /\ k \notin DOMAIN map'
                /\ k \notin OrderIndexKeys(order', freq_map')
                /\ map' = MapRemove(map, k)]_vars

\* put(k, v) of the engine in use
Put(k, v) ==
    \/ LRU_put(k, v)
    \/ FIFO_put(k, v)
    \/ LFU_put_existing(k, v) \/ LFU_put_new(k, v) \/ LFU_put_evict(k, v)

\* C13: all engines, capacity >= 1, ttl > 0: after put(k, v) of a key that
\* was not in the Store, as long as the clock is before the put's time plus
\* ttl and no foreground call other than get(k) and contains(k) has been
\* made, get(k) returns v and contains(k) returns true, whatever sweeps have
\* run in between.
C13_FreshPutIsRead ==
    [][\A k \in Keys, v \in Values :
          /\ (last'.op = "put" /\ Put(k, v) /\ k \notin DOMAIN map) =>
                last'.fresh = <<k, v, now + ttl>>
          /\ (last.fresh # << >> /\ last.fresh[1] = k /\ last.fresh[2] = v
                /\ now < last.fresh[3]) =>
                /\ (last'.op = "get" /\ GetReturns(k)) => last'.ret = <<v>>
                /\ (last'.op = "contains" /\ Contains(k)) => last'.ret = <<TRUE>>]_vars

\* a get has just returned the value of the insertion before it, after the
\* clock has advanced
C13_Witness ==
    /\ last.op = "get" /\ last.fresh # << >>
    /\ last.key = last.fresh[1] /\ last.ret = <<last.fresh[2]>>
    /\ now > 0

\* C14: FIFO: a get of a key whose entry is in the Store and live returns
\* the value and changes neither the Store (no expires_at refresh) nor the
\* order sequence.
C14_FIFOGetReadOnly ==
    [][\A k \in Keys :
          (last'.op = "get" /\ FIFO_get(k) /\ k \in DOMAIN map /\ Live(map[k], now)) =>
              /\ last'.ret = <<map[k].value>>
              /\ map' = map /\ order' = order /\ last'.gone = {}]_vars

\* a FIFO get has just returned the value of an entry written before the
\* clock advanced: its expires_at is still the one of the put
C14_Witness ==
    /\ strat = "FIFO"
    /\ last.op = "get" /\ last.ret # << >>
    /\ map[last.key].expires_at < now + ttl

\* C15: LFU: a put of a key whose entry is in the Store and live writes the
\* value and expires_at = now + ttl, leaves the frequency and the frequency
\* index as they were and takes nothing out of the Store, full or not.
C15_LFUPutOverwrites ==
    [][\A k \in Keys, v \in Values :
          (last'.op = "put" /\ Put(k, v) /\ strat = "LFU"
              /\ k \in DOMAIN map /\ Live(map[k], now)) =>
              /\ map' = [map EXCEPT ![k] = [value |-> v, expires_at |-> now + ttl,
                                            frequency |-> map[k].frequency]]
              /\ freq_map' = freq_map
              /\ last'.gone = {}]_vars

\* a put has just overwritten an entry of frequency 2 in a full LFU Store,
\* after the clock advanced
C15_Witness ==
    /\ strat = "LFU"
    /\ last.op = "put" /\ last.fresh = << >> /\ last.gone = {}
    /\ Size = capacity /\ now > 0
    /\ map[last.key].frequency = 2 /\ map[last.key].expires_at = now + ttl

\* bucket f of the frequency index, empty when there is none
BucketOf(fm, f) == IF f \in DOMAIN fm THEN fm[f] ELSE {}

\* the step is a get(k) of the LFU engine that returns a value
LFUGetReturnsValue(k) == last'.op = "get" /\ last'.ret # << >> /\ LFU_get(k)

\* C16: LFU: a put of a key that was not in the Store gives it frequency 1
\* in bucket 1; a get that returns a value adds exactly 1 and moves the key
\* from the old bucket, deleted when left empty, to the new one; no other
\* step changes the frequency of a key that stays in the Store.
C16_LFUFrequency ==
    [][strat = "LFU" =>
          \A k \in DOMAIN map' :
              /\ k \notin DOMAIN map =>
                    map'[k].frequency = 1 /\ k \in BucketOf(freq_map', 1)
              /\ (k \in DOMAIN map /\ LFUGetReturnsValue(k)) =>
                    /\ map'[k].frequency = map[k].frequency + 1
                    /\ k \in BucketOf(freq_map', map[k].frequency + 1)
                    /\ k \notin BucketOf(freq_map', map[k].frequency)
                    /\ map[k].frequency \in DOMAIN freq_map' =>
                          freq_map'[map[k].frequency] # {}
              /\ (k \in DOMAIN map /\ ~LFUGetReturnsValue(k)) =>
                    map'[k].frequency = map[k].frequency]_vars

\* a get has just moved a key from bucket 1, deleted, to bucket 2
C16_Witness ==
    /\ strat = "LFU"
    /\ last.op = "get" /\ last.ret # << >>
    /\ map[last.key].frequency = 2
    /\ DOMAIN freq_map = {2}

\* remove(k) of the engine in use
Remove(k) == Seq_remove(k) \/ LFU_remove(k)

\* C17: all engines: remove(k) of a key that is not in the Store changes
\* nothing; of a key that is in the Store it takes exactly k out of the Store
\* and out of the Order Index and leaves every other entry, and the order of
\* the others, as it was (hence a second remove(k) changes nothing).
C17_RemoveExact ==
    [][\A k \in Keys :
          (last'.op = "remove" /\ Remove(k)) =>
              IF k \notin DOMAIN map
              THEN UNCHANGED <<map, order, freq_map>>
              ELSE /\ map' = MapRemove(map, k)
                   /\ order' = Without(order, k)
                   /\ k \notin OrderIndexKeys(order', freq_map')
                   /\ \A f \in (DOMAIN freq_map) \cup (DOMAIN freq_map') :
                         BucketOf(freq_map', f) \ {k} = BucketOf(freq_map, f) \ {k}]_vars

\* clear() of the engine in use
Clear == Seq_clear \/ LFU_clear

\* C18: all engines: clear() leaves the Store and the Order Index empty;
\* on an empty Store len() is 0 and is_empty() is true; a get of a key that
\* is not in the Store returns nothing and changes nothing; only put(k, _)
\* brings k into the Store.
C18_ClearEmpties ==
    [][/\ (last'.op = "clear" /\ Clear) =>
            map' = << >> /\ OrderIndexKeys(order', freq_map') = {}
       /\ (last'.op = "len" /\ Length /\ map = << >>) => last'.ret = <<0>>
       /\ (last'.op = "is_empty" /\ IsEmpty /\ map = << >>) => last'.ret = <<TRUE>>
       /\ \A k \in Keys :
            /\ (last'.op = "get" /\ GetReturns(k) /\ pending = << >>
                   /\ k \notin DOMAIN map) =>
                  last'.ret = << >> /\ UNCHANGED <<map, order, freq_map>>
            /\ (k \in DOMAIN map' /\ k \notin DOMAIN map) =>
                  last'.op = "put" /\ \E v \in Values : Put(k, v)]_vars

\* a clear has just emptied a Store that held entries
C18_Witness ==
    /\ last.op = "clear" /\ last.gone # {}
    /\ map = << >> /\ order = << >> /\ freq_map = << >>

\* C19: all engines: contains, len and is_empty change neither the Store nor
\* the Order Index and answer from the membership of the Store as it is,
\* expired entries that are still in it included.
C19_ReadOnlyCalls ==
    [][/\ \A k \in Keys :
            (last'.op = "contains" /\ Contains(k)) =>
                last'.ret = <<k \in DOMAIN map>> /\ UNCHANGED <<map, order, freq_map>>
       /\ (last'.op = "len" /\ Length) =>
            last'.ret = <<Size>> /\ UNCHANGED <<map, order, freq_map>>
       /\ (last'.op = "is_empty" /\ IsEmpty) =>
            last'.ret = <<Size = 0>> /\ UNCHANGED <<map, order, freq_map>>]_vars

\* contains has just answered true for a key whose entry has expired
C19_Witness ==
    /\ last.op = "contains" /\ last.ret = <<TRUE>>
    /\ ~Live(map[last.key], now)

\* cleaner task i has not left its loop
Running(i) == i \in DOMAIN cleaners /\ cleaners[i].pc # "stopped"

\* the entry of k is in the Store and has expired
Expired(k) == k \in DOMAIN map /\ ~Live(map[k], now)

\* C11: all engines: as long as some cleaner task has not left its loop, an
\* entry of the Store that has expired is eventually out of the Store, with
\* no get made (fair scheduling of the cleaner tasks).
C11_ExpiredEventuallySwept ==
    \A k \in Keys :
        (Expired(k) /\ \E i \in 1..MaxCleaners : Running(i))
            ~> (~Expired(k) \/ ~\E i \in 1..MaxCleaners : Running(i))

\* a sweep has just taken an expired entry out of the Store
C11_Witness ==
    /\ last.op = "sweep" /\ last.gone # {}
    /\ \E i \in DOMAIN cleaners : cleaners[i].pc = "start"
    /\ \A k \in DOMAIN map : Live(map[k], now)

\* C12: all engines: after stop_cleaner every cleaner task that had not left
\* its loop at the call eventually leaves it.
C12_StopTerminates ==
    \A i \in 1..MaxCleaners :
        (last.op = "stop_cleaner" /\ Running(i)) ~> ~Running(i)

\* thread t can make its next step with the locks
CanStep(t) ==
    /\ todo[t] # << >>
    /\ Head(todo[t]).act = "unlock" \/ locks[Head(todo[t]).on] = {}

\* C20: all engines, any number of cleaner tasks: a thread that asks for the
\* Order Index lock holds the Store lock (taken before), no thread asks for
\* the Store lock while it holds the Order Index lock, and whenever some
\* thread is inside a method or a sweep some thread can go on: no deadlock.
C20_LockOrder ==
    /\ \A t \in Threads :
          todo[t] # << >> /\ Head(todo[t]) = Lock("Index") => locks.Store = {t}
    /\ \A t \in Threads :
          todo[t] # << >> /\ Head(todo[t]) = Lock("Store") => locks.Index # {t}
    /\ (\E t \in Threads : todo[t] # << >>) => \E t \in Threads : CanStep(t)

\* the caller holds both locks while every cleaner task, as many as there
\* can be, waits for the Store lock
C20_Witness ==
    /\ Len(cleaners) = MaxCleaners
    /\ locks.Store = {0} /\ locks.Index = {0}
    /\ \A i \in DOMAIN cleaners : todo[i] # << >> /\ Head(todo[i]) = Lock("Store")

\* C21: standalone LRUCache: a get of an entry that is in the Store and live
\* returns its value and sets its expires_at to now + ttl, and a get returns
\* the value of every entry whose expires_at is after now: an entry read
\* before its deadline is returned again after that deadline, within ttl of
\* the read.
C21_LRUCacheSlidingTTL ==
    [][\A k \in Keys :
          (last'.op = "get" /\ LRUCache_get(k) /\ k \in DOMAIN map
              /\ map[k].expires_at > now) =>
              /\ last'.ret = <<map[k].value>>
              /\ k \in DOMAIN map'
              /\ map'[k] = [value |-> map[k].value, expires_at |-> now + ttl]]_vars

\* a get has just returned the value of an insertion whose own deadline
\* (time of the put + ttl) has passed: only the refresh of an earlier get
\* kept the entry
C21_Witness ==
    /\ strat = "LRUCache"
    /\ last.op = "get" /\ last.fresh # << >>
    /\ last.key = last.fresh[1] /\ last.ret = <<last.fresh[2]>>
    /\ now >= last.fresh[3]

\* C22: LRU: a put of a key that is in the Store writes the value and
\* expires_at = now + ttl, moves the key to the head of the order sequence
\* and takes no key out of the Store, full or not: the keys of the Store are
\* the same.
C22_LRUDuplicatePut ==
    [][\A k \in Keys, v \in Values :
          (last'.op = "put" /\ LRU_put(k, v) /\ k \in DOMAIN map) =>
              /\ map' = [map EXCEPT ![k] = [value |-> v, expires_at |-> now + ttl]]
              /\ order' = <<k>> \o Without(order, k)
              /\ last'.gone = {}
              /\ DOMAIN map' = DOMAIN map]_vars

\* a put has just overwritten a key of a full LRU Store of two, after the
\* clock advanced
C22_Witness ==
    /\ strat = "LRU" /\ capacity = 2 /\ Size = 2
    /\ last.op = "put" /\ last.fresh = << >> /\ last.gone = {}
    /\ order[1] = last.key
    /\ now > 0 /\ map[last.key].expires_at = now + ttl

\* C23: all engines: a sweep takes out of the Store exactly the entries
\* whose expires_at is at or before now; every other entry keeps its value,
\* expires_at and frequency, and the keys that stay keep their relative
\* order in the order sequence (LRU, FIFO) or their buckets (LFU).
C23_SweepExact ==
    [][\A i \in DOMAIN cleaners :
          (last'.op = "sweep" /\ CleanerRound(i)) =>
              LET live == {k \in DOMAIN map : map[k].expires_at > now}
              IN  /\ DOMAIN map' = live
                  /\ \A k \in live : map'[k] = map[k]
                  /\ strat \in {"LRU", "FIFO"} =>
                        order' = SelectSeq(order, LAMBDA k : k \in live)
                  /\ strat = "LFU" =>
                        \A k \in live :
                            \A f \in (DOMAIN freq_map) \cup (DOMAIN freq_map') :
                                k \in BucketOf(freq_map', f) <=> k \in BucketOf(freq_map, f)]_vars

\* a sweep has just taken an expired entry out of an LFU Store and left a
\* live one in its bucket
C23_Witness ==
    /\ strat = "LFU"
    /\ last.op = "sweep" /\ last.gone # {}
    /\ \E k \in DOMAIN map :
          map[k].expires_at > now /\ k \in BucketOf(freq_map, map[k].frequency)

\* C24: all engines: a cleaner task that has taken the notified() branch has
\* left its loop for good and never sweeps again; stop_cleaner wakes only
\* tasks that are inside select! at the call, a task leaves its loop only
\* after such a wake-up, and a task spawned by start_cleaner begins at the
\* top of its loop whatever stop_cleaner calls came before: no stop signal
\* is left pending.
C24_StopOnlyExisting ==
    [][\A i \in 1..MaxCleaners :
          /\ (i \in DOMAIN cleaners /\ cleaners[i].pc = "stopped") =>
                /\ cleaners'[i].pc = "stopped"
                /\ ~(last'.op = "sweep" /\ CleanerSweep(i))
          /\ (i \notin DOMAIN cleaners /\ i \in DOMAIN cleaners') =>
                /\ last'.op = "start_cleaner"
                /\ cleaners'[i].pc = "start"
                /\ \A j \in DOMAIN cleaners : cleaners'[j] = cleaners[j]
          /\ (i \in DOMAIN cleaners /\ cleaners[i].pc # "notified"
                /\ cleaners'[i].pc = "notified") =>
                last'.op = "stop_cleaner" /\ StopCleaner /\ cleaners[i].pc = "waiting"
          /\ (i \in DOMAIN cleaners /\ cleaners[i].pc # "stopped"
                /\ cleaners'[i].pc = "stopped") =>
                cleaners[i].pc = "notified"]_vars

\* start_cleaner has just spawned a third task after the stop_cleaner call
\* that made the first two leave their loop: the new one is at the top of
\* its loop
C24_Witness ==
    /\ last.op = "start_cleaner"
    /\ Len(cleaners) = 3
    /\ cleaners[1].pc = "stopped" /\ cleaners[2].pc = "stopped"
    /\ cleaners[3].pc = "start"

\* C25: LFU: run from the same Store, frequency index and instant, the sweep
\* of a task spawned by start_cleaner and the sweep of the task spawned at
\* construction leave the same Store and the same frequency index.
C25_LFUSweepsAgree ==
    strat = "LFU" =>
        /\ LFUStartSweepMap(map, now) = LFUNewSweepMap(map, now)
        /\ LFUStartSweepFreq(map, freq_map, now) = LFUNewSweepFreq(map, freq_map, now)

\* C26: all engines: a step that writes the expires_at of an entry, new or
\* already in the Store, sets it to now + ttl, and the expires_at of a key
\* that stays in the Store never decreases.
C26_ExpiryMonotone ==
    [][\A k \in DOMAIN map' :
          /\ k \notin DOMAIN map => map'[k].expires_at = now + ttl
          /\ k \in DOMAIN map =>
                /\ map'[k].expires_at >= map[k].expires_at
                /\ map'[k].expires_at # map[k].expires_at =>
                      map'[k].expires_at = now + ttl]_vars

\* a put has just moved the expires_at of an entry of an LRU Store forward,
\* and the entry next to it keeps an earlier one
C26_Witness ==
    /\ strat = "LRU"
    /\ last.op = "put" /\ last.fresh = << >> /\ last.gone = {}
    /\ map[last.key].expires_at = now + ttl
    /\ \E k \in DOMAIN map : map[k].expires_at < now + ttl

\* C27: FIFO: a put of a key whose entry is in the Store but expired changes
\* neither the Store nor the order sequence, so the entry is still expired;
\* a get of such a key finds it expired, returns nothing and leaves the key
\* in neither structure.
C27_FIFOExpiredPutNoOp ==
    [][\A k \in Keys :
          /\ \A v \in Values :
                (last'.op = "put" /\ FIFO_put(k, v)
                    /\ k \in DOMAIN map /\ ~Live(map[k], now)) =>
                    /\ map' = map /\ order' = order
                    /\ ~Live(map'[k], now')
          /\ (last'.op \in {"get", "get_check"} /\ FIFO_get(k)
                /\ k \in DOMAIN map /\ ~Live(map[k], now)) =>
                last'.op = "get_check" /\ pending' = <<k>>
          /\ (last'.op = "get" /\ pending = <<k>> /\ FIFO_get_relock) =>
                /\ last'.ret = << >>
                /\ k \notin DOMAIN map' /\ k \notin Range(order')]_vars

\* a put of a key whose entry was expired has just returned, and the entry
\* is still in the FIFO Store, still expired
C27_Witness ==
    /\ strat = "FIFO"
    /\ last.op = "put" /\ last.stale
    /\ last.key \in DOMAIN map /\ ~Live(map[last.key], now)

\* C28: FIFO: a get of an expired key drops the Store lock after its check
\* and takes both locks again to remove the key; whatever sweeps ran in
\* between, the get returns nothing, the key is in neither structure when it
\* returns, every other entry is as it was before the removal, a sweep run
\* in between removes no live entry, and the Store and the order sequence
\* hold the same keys.
C28_FIFOGetGapSafe ==
    [][strat = "FIFO" =>
          /\ DOMAIN map' = Range(order')
          /\ (last'.op = "get" /\ pending # << >> /\ FIFO_get_relock) =>
                /\ last'.ret = << >>
                /\ pending[1] \notin DOMAIN map'
                /\ pending[1] \notin Range(order')
                /\ Kept(map, map', {pending[1]})
                /\ pending' = << >>
          /\ (pending # << >> /\ pending' # << >>) =>
                /\ pending' = pending
                /\ Kept(map, map', {x \in DOMAIN map : ~Live(map[x], now)})]_vars

\* between the two halves of a get of an expired key, a sweep has just
\* removed that key from the FIFO Store
C28_Witness ==
    /\ strat = "FIFO"
    /\ pending # << >>
    /\ last.op = "sweep" /\ pending[1] \in last.gone
    /\ pending[1] \notin DOMAIN map

\* C29: LFU: a put of a key whose entry is in the Store but expired writes
\* the value and expires_at = now + ttl in place, keeps the frequency the
\* entry had, leaves the frequency index as it was and takes nothing out of
\* the Store.
C29_LFUPutRevives ==
    [][\A k \in Keys, v \in Values :
          (last'.op = "put" /\ Put(k, v) /\ strat = "LFU"
              /\ k \in DOMAIN map /\ ~Live(map[k], now)) =>
              /\ map'[k] = [value |-> v, expires_at |-> now + ttl,
                            frequency |-> map[k].frequency]
              /\ Live(map'[k], now')
              /\ Kept(map, map', {k})
              /\ DOMAIN map' = DOMAIN map
              /\ freq_map' = freq_map
              /\ last'.gone = {}]_vars

\* a put has just revived an expired entry of frequency 2 of an LFU Store
C29_Witness ==
    /\ strat = "LFU"
    /\ last.op = "put" /\ last.stale /\ last.gone = {}
    /\ map[last.key].frequency = 2 /\ map[last.key].expires_at = now + ttl

====
